---- MODULE Spec2Model ----
(***************************************************************************)
(* Subscription service: the subscriptions table, the repository queries,  *)
(* the validating service and the REST handlers.  Spec has one client that *)
(* sends a request and reads its response before sending the next, and a   *)
(* store that answers every statement; SpecZoned sends timestamps on       *)
(* different clocks, SpecConc serves several requests at once, SpecCancel  *)
(* lets the context of a request end during its statement, SpecFail lets   *)
(* the store fail reads as well, SpecPriced sends prices up to the limits  *)
(* of the column type, and SpecMain is main from start-up to shutdown.     *)
(*                                                                         *)
(* A calendar month is an index ym: 0 is December 2022, 1 is January 2023  *)
(* and so on.  A DATE is [ym, d]; a time.Time is [ym, d, off]: midnight of *)
(* day d of month ym on a clock off hours ahead of UTC.                    *)
(***************************************************************************)
EXTENDS Integers, Sequences, FiniteSets, TLC

VARIABLES subscriptions, call, proc

vars == <<subscriptions, call, proc>>

----------------------------------------------------------------------------
(* Bounds and sample inputs *)

\* The months a summary range may touch are 0..MaxYm.
MaxYm == 2

Yms == 0..MaxYm

\* Months in which the sampled subscriptions start and end.
SubYms == {1, 2}

Days == {1, 31}

\* UTC offsets of the sampled timestamps, in hours.
Offsets == {0}

Users == {"u1", "u2"}

Services == {"s1", "s2"}

Keys == {<<"u1", "s1">>, <<"u1", "s2">>, <<"u2", "s1">>}

Prices == {1, 2}

\* A nil pointer, a SQL NULL or an empty query parameter is the empty
\* tuple; a present value v is <<v>>.
None == <<>>

Some(v) == <<v>>

----------------------------------------------------------------------------
(* Calendar: what time.Time and the DATE type compute *)

YearOf(ym) == 2022 + ((ym + 11) \div 12)

MonthOf(ym) == ((ym + 11) % 12) + 1

IsLeap(y) == (y % 4 = 0 /\ y % 100 # 0) \/ y % 400 = 0

DaysIn(ym) ==
    CASE MonthOf(ym) = 2 -> IF IsLeap(YearOf(ym)) THEN 29 ELSE 28
      [] MonthOf(ym) \in {4, 6, 9, 11} -> 30
      [] OTHER -> 31

RECURSIVE DaysBefore(_)
DaysBefore(ym) == IF ym = 0 THEN 0 ELSE DaysBefore(ym - 1) + DaysIn(ym - 1)

\* The instant of a time.Time, in hours since 2022-12-01T00:00:00Z.
Unix(t) == (DaysBefore(t.ym) + t.d - 1) * 24 - t.off

Before(t, u) == Unix(t) < Unix(u)

\* Mutant of After: an equal instant counts as after.
AfterOrEqual(t, u) == Unix(t) >= Unix(u)

After(t, u) == Unix(t) > Unix(u)

\* Mutant of firstOfMonth: the day is kept.
firstOfMonthKeepDay(t) == [ym |-> t.ym, d |-> t.d, off |-> t.off]

firstOfMonth(t) == [ym |-> t.ym, d |-> 1, off |-> t.off]

\* A time.Time bound to a DATE parameter: its year, month and day on its
\* own clock.
DateValue(t) == [ym |-> t.ym, d |-> t.d]

\* A DATE column scanned into a time.Time: midnight UTC of that day.
ScanDate(dt) == [ym |-> dt.ym, d |-> dt.d, off |-> 0]

DateLE(a, b) == a.ym < b.ym \/ (a.ym = b.ym /\ a.d <= b.d)

\* The well-formed RFC3339 timestamps of the given months: the day exists.
TimesIn(yms) == {t \in [ym : yms, d : Days, off : Offsets] : t.d <= DaysIn(t.ym)}

Times == TimesIn(Yms)

SubTimes == TimesIn(SubYms)

----------------------------------------------------------------------------
(* The subscriptions table and the statements run against it *)

IsNull(v) == v = None

PrimaryKey(row) == <<row.user_id, row.service_name>>

\* The table's CHECK constraints.
RowChecks(row) ==
    /\ row.price >= 0
    /\ row.start_date.d = 1
    /\ IsNull(row.end_date) \/ row.end_date[1].d = 1

\* Mutant of ExecInsert: a table without its primary key.
ExecInsertNoKey(table, row) ==
    IF ~RowChecks(row) THEN [code |-> "23514", table |-> table]
    ELSE [code |-> "00000", table |-> table \cup {row}]

\* INSERT INTO subscriptions ...: the SQLSTATE and the table afterwards.
ExecInsert(table, row) ==
    IF ~RowChecks(row) THEN [code |-> "23514", table |-> table]
    ELSE IF \E r \in table : PrimaryKey(r) = PrimaryKey(row)
         THEN [code |-> "23505", table |-> table]
         ELSE [code |-> "00000", table |-> table \cup {row}]

\* Mutant of ExecUpdate: an upsert, which inserts the row when none matches.
ExecUpdateUpsert(table, price, start, end, userId, serviceName) ==
    LET hit == {r \in table : r.user_id = userId /\ r.service_name = serviceName}
        row == [user_id |-> userId, service_name |-> serviceName, price |-> price,
                start_date |-> start, end_date |-> end]
    IN  IF ~RowChecks(row) THEN [code |-> "23514", rows |-> 0, table |-> table]
        ELSE [code |-> "00000", rows |-> 1, table |-> (table \ hit) \cup {row}]

\* Mutant of ExecUpdate: end_date is missing from the SET list.
ExecUpdateKeepEnd(table, price, start, end, userId, serviceName) ==
    LET hit == {r \in table : r.user_id = userId /\ r.service_name = serviceName}
        new(r) == [r EXCEPT !.price = price, !.start_date = start]
    IN  IF \E r \in hit : ~RowChecks(new(r))
        THEN [code |-> "23514", rows |-> 0, table |-> table]
        ELSE [code |-> "00000", rows |-> Cardinality(hit),
              table |-> (table \ hit) \cup {new(r) : r \in hit}]

\* UPDATE subscriptions SET ... WHERE user_id = $4 AND service_name = $5.
ExecUpdate(table, price, start, end, userId, serviceName) ==
    LET hit == {r \in table : r.user_id = userId /\ r.service_name = serviceName}
        new(r) == [r EXCEPT !.price = price, !.start_date = start, !.end_date = end]
    IN  IF \E r \in hit : ~RowChecks(new(r))
        THEN [code |-> "23514", rows |-> 0, table |-> table]
        ELSE [code |-> "00000", rows |-> Cardinality(hit),
              table |-> (table \ hit) \cup {new(r) : r \in hit}]

\* Mutant of ExecDelete: the service name is not compared.
ExecDeleteUser(table, userId, serviceName) ==
    LET hit == {r \in table : r.user_id = userId}
    IN  [code |-> "00000", rows |-> Cardinality(hit), table |-> table \ hit]

\* DELETE FROM subscriptions WHERE user_id = $1 AND service_name = $2.
ExecDelete(table, userId, serviceName) ==
    LET hit == {r \in table : r.user_id = userId /\ r.service_name = serviceName}
    IN  [code |-> "00000", rows |-> Cardinality(hit), table |-> table \ hit]

\* date + interval '1 month': the same day of the next month, or its last day.
AddMonth(dt) ==
    [ym |-> dt.ym + 1, d |-> IF dt.d <= DaysIn(dt.ym + 1) THEN dt.d ELSE DaysIn(dt.ym + 1)]

\* generate_series(start, stop, interval '1 month'): start, then each value
\* plus one month while it is not after stop.
RECURSIVE generate_series(_, _)
generate_series(start, stop) ==
    IF DateLE(start, stop) THEN <<start>> \o generate_series(AddMonth(start), stop)
    ELSE <<>>

\* Mutant of JoinOn: the end_date is not compared.
JoinOnStartOnly(s, m) == DateLE(s.start_date, m)

\* The join condition of the summary query.
JoinOn(s, m) == DateLE(s.start_date, m) /\ (IsNull(s.end_date) \/ DateLE(m, s.end_date[1]))

\* Mutant of Where: the user filter is dropped.
WhereServiceOnly(s, userId, serviceName) ==
    IsNull(serviceName) \/ s.service_name = serviceName[1]

\* The WHERE clause of the summary query and of the list query.
Where(s, userId, serviceName) ==
    /\ IsNull(userId) \/ s.user_id = userId[1]
    /\ IsNull(serviceName) \/ s.service_name = serviceName[1]

RECURSIVE SumPrice(_)
SumPrice(pairs) ==
    IF pairs = {} THEN 0
    ELSE LET p == CHOOSE p \in pairs : TRUE IN p[1].price + SumPrice(pairs \ {p})

\* SUM(s.price) over the joined rows: NULL when there is none.
Sum(pairs) == IF pairs = {} THEN None ELSE Some(SumPrice(pairs))

\* Mutant of Coalesce: the sum is selected as it is.
CoalesceMissing(v, w) == v

Coalesce(v, w) == IF IsNull(v) THEN w ELSE v

\* The summary query: the single value of its single row.
SummaryQuery(table, from, to, userId, serviceName) ==
    LET m == generate_series(from, to)
        joined == {p \in table \X (1..Len(m)) :
                     JoinOn(p[1], m[p[2]]) /\ Where(p[1], userId, serviceName)}
    IN  Coalesce(Sum(joined), Some(0))

----------------------------------------------------------------------------
(* Errors, by the message the code creates them with *)

OK == "nil"

ErrAlreadyExists == "subscription already exists"

ErrNotFound == "subscription not found"

ErrInvalidDateRange == "end date cannot be before start date"

ErrInvalidRange == "from date cannot be after to date"

ErrScanNull == "cannot scan NULL into *int"

----------------------------------------------------------------------------
(* PgRepository *)

\* The row written for a model.Subscription.
RowOf(subUnit) ==
    [user_id |-> subUnit.UserId, service_name |-> subUnit.ServiceName,
     price |-> subUnit.Price, start_date |-> DateValue(subUnit.StartDate),
     end_date |-> IF IsNull(subUnit.EndDate) THEN None
                  ELSE Some(DateValue(subUnit.EndDate[1]))]

\* rows.Scan / row.Scan into a model.Subscription.
ScanRow(r) ==
    [UserId |-> r.user_id, ServiceName |-> r.service_name, Price |-> r.price,
     StartDate |-> ScanDate(r.start_date),
     EndDate |-> IF IsNull(r.end_date) THEN None ELSE Some(ScanDate(r.end_date[1]))]

\* Mutant of NormalizeDates: the end date is normalized from the start date.
NormalizeDatesEndFromStart(subUnit) ==
    [subUnit EXCEPT !.StartDate = firstOfMonth(@),
                    !.EndDate = IF IsNull(@) THEN None
                                ELSE Some(firstOfMonth(subUnit.StartDate))]

\* The first lines of InsertSubscription and UpdateSubscription.
NormalizeDates(subUnit) ==
    [subUnit EXCEPT !.StartDate = firstOfMonth(@),
                    !.EndDate = IF IsNull(@) THEN None ELSE Some(firstOfMonth(@[1]))]

\* The largest value of the INTEGER column price.
MaxInt4 == 2147483647

ErrInt4Range == "is greater than maximum value for Int4"

\* A price v stands for the amount v * PriceUnit, so that amounts beyond the
\* INTEGER column are numbers the checker can hold; sums and comparisons of
\* prices do not depend on the unit.
PriceUnit == 2^16

\* Exec binding the int64 price to the INTEGER parameter: a value beyond the
\* column's type is refused by the driver and the statement is not sent.
EncodesAsInt4(v) == v <= MaxInt4 \div PriceUnit

InsertSubscription(table, subUnit) ==
    IF ~EncodesAsInt4(subUnit.Price) THEN [err |-> ErrInt4Range, table |-> table]
    ELSE
    LET res == ExecInsert(table, RowOf(NormalizeDates(subUnit)))
    IN  [err |-> IF res.code = "00000" THEN OK
                 ELSE IF res.code = "23505" THEN ErrAlreadyExists ELSE res.code,
         table |-> res.table]

PgGetSubscription(table, userId, serviceName) ==
    LET hit == {r \in table : r.user_id = userId /\ r.service_name = serviceName}
    IN  IF hit = {} THEN [err |-> ErrNotFound, sub |-> None]
        ELSE [err |-> OK, sub |-> Some(ScanRow(CHOOSE r \in hit : TRUE))]

PgUpdateSubscription(table, subUnit) ==
    IF ~EncodesAsInt4(subUnit.Price) THEN [err |-> ErrInt4Range, table |-> table]
    ELSE
    LET row == RowOf(NormalizeDates(subUnit))
        res == ExecUpdate(table, row.price, row.start_date, row.end_date,
                          row.user_id, row.service_name)
    IN  [err |-> IF res.code # "00000" THEN res.code
                 ELSE IF res.rows = 0 THEN ErrNotFound ELSE OK,
         table |-> res.table]

DeleteSubscription(table, userId, serviceName) ==
    LET res == ExecDelete(table, userId, serviceName)
    IN  [err |-> IF res.code # "00000" THEN res.code
                 ELSE IF res.rows = 0 THEN ErrNotFound ELSE OK,
         table |-> res.table]

GetSubscriptionsList(table, userId, serviceName) ==
    [err |-> OK, subs |-> {ScanRow(r) : r \in {s \in table : Where(s, userId, serviceName)}}]

GetSubscriptionsSummary(table, from, to, userId, serviceName) ==
    LET v == SummaryQuery(table, DateValue(from), DateValue(to), userId, serviceName)
    IN  IF IsNull(v) THEN [err |-> ErrScanNull, total |-> 0]
        ELSE [err |-> OK, total |-> v[1]]

----------------------------------------------------------------------------
(* SubscriptionService: each result carries the table afterwards and the   *)
(* number of statements sent to the store.                                 *)

\* Mutant of EndBeforeStart: the comparison is turned around.
EndAfterStart(subUnit) ==
    ~IsNull(subUnit.EndDate) /\ After(subUnit.EndDate[1], subUnit.StartDate)

EndBeforeStart(subUnit) ==
    ~IsNull(subUnit.EndDate) /\ Before(subUnit.EndDate[1], subUnit.StartDate)

\* Mutant of SvcSubscribe: the insert is tried before the dates are compared.
SvcSubscribeInsertFirst(table, subUnit) ==
    LET r == InsertSubscription(table, subUnit)
    IN  IF r.err # OK THEN [err |-> r.err, table |-> table, dbCalls |-> 1]
        ELSE IF EndBeforeStart(subUnit)
        THEN [err |-> ErrInvalidDateRange, table |-> table, dbCalls |-> 1]
        ELSE [err |-> r.err, table |-> r.table, dbCalls |-> 1]

SvcSubscribe(table, subUnit) ==
    IF EndBeforeStart(subUnit)
    THEN [err |-> ErrInvalidDateRange, table |-> table, dbCalls |-> 0]
    ELSE LET r == InsertSubscription(table, subUnit)
         IN  [err |-> r.err, table |-> r.table, dbCalls |-> 1]

SvcGetSubscription(table, userId, serviceName) ==
    LET r == PgGetSubscription(table, userId, serviceName)
    IN  [err |-> r.err, sub |-> r.sub, table |-> table, dbCalls |-> 1]

SvcUpdateSubscription(table, subUnit) ==
    IF EndBeforeStart(subUnit)
    THEN [err |-> ErrInvalidDateRange, table |-> table, dbCalls |-> 0]
    ELSE LET r == PgUpdateSubscription(table, subUnit)
         IN  [err |-> r.err, table |-> r.table, dbCalls |-> 1]

SvcUnsubscribe(table, userId, serviceName) ==
    LET r == DeleteSubscription(table, userId, serviceName)
    IN  [err |-> r.err, table |-> r.table, dbCalls |-> 1]

SvcListSubscriptions(table, userId) ==
    LET r == GetSubscriptionsList(table, Some(userId), None)
    IN  [err |-> r.err, subs |-> r.subs, table |-> table, dbCalls |-> 1]

SvcGetSubscriptionSummary(table, from, to, userId, serviceName) ==
    IF After(from, to)
    THEN [err |-> ErrInvalidRange, total |-> 0, table |-> table, dbCalls |-> 0]
    ELSE LET r == GetSubscriptionsSummary(table, from, to, userId, serviceName)
         IN  [err |-> r.err, total |-> r.total, table |-> table, dbCalls |-> 1]

----------------------------------------------------------------------------
(* RestHandler: request parsing and validation *)

\* time.Parse(time.RFC3339, s): the text names a day that exists.
ParseTime(s) == IF s.d <= DaysIn(s.ym) THEN Some(s) ELSE None

NilUUID == "00000000-0000-0000-0000-000000000000"

\* uuid.Parse(s) followed by the uuid.Nil test: the texts of Users and NilUUID
\* are the well-formed ones.
ValidUUID(s) == s \in Users

ValidateSubscriptionRequest(req) ==
    IF ~ValidUUID(req.user_id) THEN [err |-> "invalid user_id parameter", sub |-> None]
    ELSE IF req.service_name = "" THEN [err |-> "service_name is required", sub |-> None]
    ELSE IF req.price < 0 THEN [err |-> "price cannot be negative", sub |-> None]
    ELSE IF IsNull(ParseTime(req.start_date))
         THEN [err |-> "invalid start_date format", sub |-> None]
    ELSE IF ~IsNull(req.end_date) /\ IsNull(ParseTime(req.end_date[1]))
         THEN [err |-> "invalid end_date format", sub |-> None]
    ELSE [err |-> OK,
          sub |-> Some([UserId |-> req.user_id, ServiceName |-> req.service_name,
                        Price |-> req.price, StartDate |-> ParseTime(req.start_date)[1],
                        EndDate |-> IF IsNull(req.end_date) THEN None
                                    ELSE ParseTime(req.end_date[1])])]

\* The response of a handler that answered before calling the service.
Rejected(op, req, message) ==
    [op |-> op, req |-> req, called |-> FALSE, err |-> message, dbCalls |-> 0,
     status |-> 400, out |-> None]

\* The response of a handler that called the service.
Served(op, req, r, status, out) ==
    [op |-> op, req |-> req, called |-> TRUE, err |-> r.err, dbCalls |-> r.dbCalls,
     status |-> status, out |-> out]

Idle == [op |-> "idle"]

----------------------------------------------------------------------------
(* The process: main, the goroutine that waits for a signal, the goroutine *)
(* that runs the router, and the state they share.                         *)
(*   signal   the buffered channel sig: "none", "queued", "taken"          *)
(*   ctx      main's context: "live" or "canceled"                         *)
(*   main     where main is: "connect", "go_run", "wait", "stop",          *)
(*            "stopping", "sleep", "returned"                              *)
(*   run      where the router goroutine is: "unstarted", "assign",        *)
(*            "listen", "serving", "check"                                 *)
(*   s        the field router.s: "nil" or "srv"                           *)
(*   srv      the http.Server: "new", "listening", "shutdown"              *)
(*   active   requests being served                                        *)
(*   runErr   what router.Run returned                                     *)
(*   stopRead what router.Stop read from router.s                          *)
(*   exit     how the process ended: "running", "fatal_connect",           *)
(*            "fatal_server", "panic", "returned"                          *)

ErrServerClosed == "http: Server closed"

ErrListen == "listen tcp: address already in use"

\* main has been entered.
MainEntered ==
    [signal |-> "none", ctx |-> "live", main |-> "connect", run |-> "unstarted",
     s |-> "nil", srv |-> "new", active |-> 0, runErr |-> OK, stopCalls |-> 0,
     stopRead |-> "none", whileServing |-> FALSE, cleanups |-> FALSE, exit |-> "running"]

\* The server is up and no signal has come.
ServerUp ==
    [MainEntered EXCEPT !.main = "wait", !.run = "serving", !.s = "srv", !.srv = "listening"]

----------------------------------------------------------------------------
(* Requests the client sends *)

SubscriptionRequests ==
    {r \in [user_id : Users, service_name : Services, price : Prices,
            start_date : SubTimes, end_date : {None} \cup {Some(t) : t \in SubTimes}] :
       <<r.user_id, r.service_name>> \in Keys}

\* One request per way of failing validation.
BadSubscriptionRequests ==
    LET g == [user_id |-> "u1", service_name |-> "s1", price |-> 1,
              start_date |-> [ym |-> 1, d |-> 1, off |-> 0], end_date |-> None]
        feb31 == [ym |-> 2, d |-> 31, off |-> 0]
    IN  {[g EXCEPT !.user_id = "not-a-uuid"], [g EXCEPT !.user_id = NilUUID],
         [g EXCEPT !.service_name = ""], [g EXCEPT !.price = -1],
         [g EXCEPT !.start_date = feb31], [g EXCEPT !.end_date = Some(feb31)]}

KeyRequests ==
    {[user_id |-> k[1], service_name |-> k[2]] : k \in Keys}
      \cup {[user_id |-> "not-a-uuid", service_name |-> "s1"],
            [user_id |-> "u1", service_name |-> ""]}

ListRequests == {[userId |-> u] : u \in Users \cup {"not-a-uuid"}}

SummaryRequests ==
    [from : {Some(t) : t \in Times}, to : {Some(t) : t \in Times},
     user_id : Users \cup {""}, service_name : Services \cup {""}]

BadSummaryRequests ==
    LET g == [from |-> Some([ym |-> 1, d |-> 1, off |-> 0]),
              to |-> Some([ym |-> 1, d |-> 1, off |-> 0]),
              user_id |-> "", service_name |-> ""]
        feb31 == [ym |-> 2, d |-> 31, off |-> 0]
    IN  {[g EXCEPT !.from = None], [g EXCEPT !.to = None],
         [g EXCEPT !.from = Some(feb31)], [g EXCEPT !.to = Some(feb31)],
         [g EXCEPT !.user_id = "not-a-uuid"]}

----------------------------------------------------------------------------
(* RestHandler: one action per handler, up to the call that writes the     *)
(* response; Respond is that call.                                         *)

\* The status a handler answers with, from the error the service returned.
SubscribeStatus(err) ==
    IF err = OK THEN 201 ELSE IF err = ErrAlreadyExists THEN 409 ELSE 500

\* Mutant of UpdateStatus: every failure is a server error.
UpdateStatusNoNotFound(err) == IF err = OK THEN 200 ELSE 500

UpdateStatus(err) ==
    IF err = OK THEN 200 ELSE IF err = ErrNotFound THEN 404 ELSE 500

UnsubscribeStatus(err) ==
    IF err = OK THEN 200 ELSE IF err = ErrNotFound THEN 404 ELSE 500

GetSubscriptionStatus(err) ==
    IF err = OK THEN 200 ELSE IF err = ErrNotFound THEN 404 ELSE 500

HandleSubscribe(req) ==
    LET v == ValidateSubscriptionRequest(req)
    IN  IF v.err # OK
        THEN /\ call' = Rejected("Subscribe", req, v.err)
             /\ UNCHANGED subscriptions
        ELSE LET r == SvcSubscribe(subscriptions, v.sub[1])
             IN  /\ call' = Served("Subscribe", req, r, SubscribeStatus(r.err), None)
                 /\ subscriptions' = r.table

HandleUpdateSubscription(req) ==
    LET v == ValidateSubscriptionRequest(req)
    IN  IF v.err # OK
        THEN /\ call' = Rejected("UpdateSubscription", req, v.err)
             /\ UNCHANGED subscriptions
        ELSE LET r == SvcUpdateSubscription(subscriptions, v.sub[1])
             IN  /\ call' = Served("UpdateSubscription", req, r, UpdateStatus(r.err), None)
                 /\ subscriptions' = r.table

Subscribe ==
    /\ call = Idle
    /\ \E req \in SubscriptionRequests \cup BadSubscriptionRequests : HandleSubscribe(req)
    /\ UNCHANGED proc

UpdateSubscription ==
    /\ call = Idle
    /\ \E req \in SubscriptionRequests \cup BadSubscriptionRequests :
         HandleUpdateSubscription(req)
    /\ UNCHANGED proc

Unsubscribe ==
    /\ call = Idle
    /\ \E req \in KeyRequests :
         IF ~ValidUUID(req.user_id)
         THEN /\ call' = Rejected("Unsubscribe", req, "invalid user_id parameter")
              /\ UNCHANGED subscriptions
         ELSE IF req.service_name = ""
         THEN /\ call' = Rejected("Unsubscribe", req, "service_name is required")
              /\ UNCHANGED subscriptions
         ELSE LET r == SvcUnsubscribe(subscriptions, req.user_id, req.service_name)
              IN  /\ call' = Served("Unsubscribe", req, r, UnsubscribeStatus(r.err), None)
                  /\ subscriptions' = r.table
    /\ UNCHANGED proc

GetSubscription ==
    /\ call = Idle
    /\ \E req \in KeyRequests :
         IF ~ValidUUID(req.user_id)
         THEN call' = Rejected("GetSubscription", req, "invalid user_id parameter")
         ELSE IF req.service_name = ""
         THEN call' = Rejected("GetSubscription", req, "service_name is required")
         ELSE LET r == SvcGetSubscription(subscriptions, req.user_id, req.service_name)
              IN  call' = Served("GetSubscription", req, r,
                                 GetSubscriptionStatus(r.err), r.sub)
    /\ UNCHANGED subscriptions
    /\ UNCHANGED proc

GetSubscriptions ==
    /\ call = Idle
    /\ \E req \in ListRequests :
         IF ~ValidUUID(req.userId)
         THEN call' = Rejected("GetSubscriptions", req, "invalid userId parameter")
         ELSE LET r == SvcListSubscriptions(subscriptions, req.userId)
              IN  call' = Served("GetSubscriptions", req, r,
                                 IF r.err = OK THEN 200 ELSE 500, r.subs)
    /\ UNCHANGED subscriptions
    /\ UNCHANGED proc

GetSubscriptionSummary ==
    /\ call = Idle
    /\ \E req \in SummaryRequests \cup BadSummaryRequests :
         IF IsNull(req.from) \/ IsNull(req.to)
         THEN call' = Rejected("GetSubscriptionSummary", req,
                               "from and to parameters are required")
         ELSE IF IsNull(ParseTime(req.from[1]))
         THEN call' = Rejected("GetSubscriptionSummary", req, "invalid from date format")
         ELSE IF IsNull(ParseTime(req.to[1]))
         THEN call' = Rejected("GetSubscriptionSummary", req, "invalid to date format")
         ELSE IF req.user_id # "" /\ ~ValidUUID(req.user_id)
         THEN call' = Rejected("GetSubscriptionSummary", req, "invalid user_id parameter")
         ELSE LET userId == IF req.user_id = "" THEN None ELSE Some(req.user_id)
                  svcName == IF req.service_name = "" THEN None ELSE Some(req.service_name)
                  r == SvcGetSubscriptionSummary(subscriptions, ParseTime(req.from[1])[1],
                                                 ParseTime(req.to[1])[1], userId, svcName)
              IN  call' = Served("GetSubscriptionSummary", req, r,
                                 IF r.err = OK THEN 200 ELSE 500, r.total)
    /\ UNCHANGED subscriptions
    /\ UNCHANGED proc

\* respondJSON / respondError: the response is written and the request ends.
Respond ==
    /\ call # Idle
    /\ call' = Idle
    /\ UNCHANGED subscriptions
    /\ UNCHANGED proc

Init ==
    /\ subscriptions = {}
    /\ call = Idle
    /\ proc = ServerUp

Next ==
    \/ Subscribe
    \/ UpdateSubscription
    \/ Unsubscribe
    \/ GetSubscription
    \/ GetSubscriptions
    \/ GetSubscriptionSummary
    \/ Respond

Spec == Init /\ [][Next]_vars

----------------------------------------------------------------------------
(* Vocabulary of the properties *)

\* The request in flight is a summary request that reached the service.
SummaryCalled == call.op = "GetSubscriptionSummary" /\ call.called

SummaryOK == SummaryCalled /\ call.err = OK

qFrom == call.req.from[1]

qTo == call.req.to[1]

qUser == IF call.req.user_id = "" THEN None ELSE Some(call.req.user_id)

qService == IF call.req.service_name = "" THEN None ELSE Some(call.req.service_name)

\* The first day of month ym.
FirstDay(ym) == [ym |-> ym, d |-> 1]

\* The activation predicate: month ym is not before the start and not after the end.
Active(s, ym) ==
    /\ DateLE(s.start_date, FirstDay(ym))
    /\ IsNull(s.end_date) \/ DateLE(FirstDay(ym), s.end_date[1])

\* Number of months from from's month through to's month.
MonthCount(from, to) ==
    (YearOf(to.ym) - YearOf(from.ym)) * 12 + MonthOf(to.ym) - MonthOf(from.ym) + 1

RECURSIVE RefSum(_, _, _)
RefSum(rows, from, to) ==
    IF rows = {} THEN 0
    ELSE LET s == CHOOSE s \in rows : TRUE
         IN  s.price * Cardinality({ym \in from.ym..to.ym : Active(s, ym)})
               + RefSum(rows \ {s}, from, to)

\* The reference total: price once per active month of the range, over the
\* subscriptions that match the filters.
RefTotal(table, from, to, userId, serviceName) ==
    RefSum({s \in table : Where(s, userId, serviceName)}, from, to)

\* What one stored subscription adds to the total of the request in flight.
Contribution(s) == call.out - GetSubscriptionsSummary(subscriptions \ {s}, qFrom, qTo,
                                                      qUser, qService).total

----------------------------------------------------------------------------
(* C1 .. C4: the summary total *)

\* C1: every summary with from <= to returns the reference total: the sum, over
\* the matching subscriptions and the months from from's month through to's
\* month, of price for each month that is active.
C1_SummaryIsReferenceTotal ==
    SummaryOK => call.out = RefTotal(subscriptions, qFrom, qTo, qUser, qService)

\* C2: the month sequence of a summary starts at the first day of from's month,
\* steps by one month and ends at the first day of to's month, so it has
\* MonthCount elements, and an open-ended matching subscription that started
\* in or before from's month contributes price times that count.
C2_SeriesFollowsMonthBoundaries ==
    SummaryOK =>
      LET m == generate_series(DateValue(qFrom), DateValue(qTo))
      IN  /\ Len(m) = MonthCount(qFrom, qTo)
          /\ \A s \in subscriptions :
               (Where(s, qUser, qService) /\ IsNull(s.end_date)
                  /\ s.start_date.ym <= qFrom.ym)
                 => Contribution(s) = s.price * MonthCount(qFrom, qTo)

\* C3: a subscription that starts and ends in the same month contributes
\* exactly one month of price to every summary that matches it and whose range
\* includes a timestamp of that month, whatever the days of from and to.
C3_SameMonthCountsOnce ==
    SummaryOK =>
      \A s \in subscriptions :
        (/\ ~IsNull(s.end_date)
         /\ s.end_date[1].ym = s.start_date.ym
         /\ Where(s, qUser, qService)
         /\ qFrom.ym <= s.start_date.ym
         /\ s.start_date.ym <= qTo.ym)
          => Contribution(s) = s.price

\* C4: a subscription adds nothing when the whole range lies in months after
\* its end month or in months before its start month, and a closed
\* subscription never adds more than price times the months from its start
\* month through its end month.
C4_NothingOutsideStartEnd ==
    SummaryOK =>
      \A s \in subscriptions :
        /\ (~IsNull(s.end_date) /\ qFrom.ym > s.end_date[1].ym) => Contribution(s) = 0
        /\ qTo.ym < s.start_date.ym => Contribution(s) = 0
        /\ ~IsNull(s.end_date) =>
             /\ Contribution(s) >= 0
             /\ Contribution(s) <= s.price * (s.end_date[1].ym - s.start_date.ym + 1)

\* A summary whose range lies after the end of a closed subscription that
\* matches it, while another subscription is counted.
C4_Witness ==
    /\ SummaryOK
    /\ call.out > 0
    /\ \E s \in subscriptions :
         /\ ~IsNull(s.end_date)
         /\ Where(s, qUser, qService)
         /\ qFrom.ym > s.end_date[1].ym

----------------------------------------------------------------------------
(* C5 .. C7: range validation, filters, empty results *)

\* C5: a summary with from strictly after to fails with InvalidRange, returns
\* total 0 with the error and sends no query to the store; a summary with
\* from <= to, from = to included, is never rejected with InvalidRange.
C5_RangeValidation ==
    SummaryCalled =>
      IF Unix(qFrom) > Unix(qTo)
      THEN call.err = ErrInvalidRange /\ call.out = 0 /\ call.dbCalls = 0
      ELSE call.err # ErrInvalidRange

\* A summary request with from after to that was answered.
C5_Witness ==
    /\ SummaryCalled
    /\ Unix(qFrom) > Unix(qTo)
    /\ subscriptions # {}

\* The total of the request in flight, had it come with these filters.
TotalWith(table, userId, serviceName) ==
    GetSubscriptionsSummary(table, qFrom, qTo, userId, serviceName).total

RECURSIVE PerUserSum(_)
PerUserSum(users) ==
    IF users = {} THEN 0
    ELSE LET u == CHOOSE u \in users : TRUE
         IN  TotalWith(subscriptions, Some(u), None) + PerUserSum(users \ {u})

\* C6: a filtered summary counts only the subscriptions of that user (that
\* service): it is the unfiltered total of the table without the other rows;
\* the unfiltered total is the sum of the per-user totals over the stored
\* users; a filter that matches no subscription yields 0.
C6_FilterIsolation ==
    SummaryOK =>
      LET matching == {s \in subscriptions :
                         /\ call.req.user_id = "" \/ s.user_id = call.req.user_id
                         /\ call.req.service_name = ""
                              \/ s.service_name = call.req.service_name}
      IN  /\ call.out = TotalWith(matching, None, None)
          /\ (call.req.user_id = "" /\ call.req.service_name = "")
               => call.out = PerUserSum({s.user_id : s \in subscriptions})
          /\ matching = {} => call.out = 0

\* A summary filtered by one user while another user's subscription is active
\* in the range, and the filtered total is not the unfiltered one.
C6_Witness ==
    /\ SummaryOK
    /\ call.req.user_id # ""
    /\ call.out > 0
    /\ call.out < TotalWith(subscriptions, None, qService)

\* C7: a summary with from <= to over a store with no matching subscription, or
\* with no matching subscription active in a month of the range, succeeds and
\* returns 0.
C7_EmptyResultIsZero ==
    (SummaryCalled /\ Unix(qFrom) <= Unix(qTo)) =>
      /\ call.err = OK
      /\ call.status = 200
      /\ (\A s \in subscriptions :
            Where(s, qUser, qService) => \A ym \in qFrom.ym..qTo.ym : ~Active(s, ym))
           => call.out = 0

\* A summary over a non-empty store that no month of the range activates.
C7_Witness ==
    /\ SummaryOK
    /\ subscriptions # {}
    /\ \E s \in subscriptions : Where(s, qUser, qService)
    /\ \A s \in subscriptions :
         Where(s, qUser, qService) => \A ym \in qFrom.ym..qTo.ym : ~Active(s, ym)
    /\ call.out = 0

----------------------------------------------------------------------------
(* C8 .. C10: the store's keys *)

KeyOf(req) == <<req.user_id, req.service_name>>

HasKey(table, key) == \E r \in table : PrimaryKey(r) = key

\* At most one record per (user_id, service_name).
UniqueKeys == \A r1, r2 \in subscriptions : PrimaryKey(r1) = PrimaryKey(r2) => r1 = r2

\* The request's end_date is absent or not before its start_date.
DatesInOrder(req) ==
    IsNull(req.end_date) \/ Unix(req.end_date[1]) >= Unix(req.start_date)

\* This step is the service call op of a request that passed the handler's
\* validation.
Calls(op) == call = Idle /\ call'.op = op /\ call'.called

\* C8 as stated: there is at most one record per key, and a subscribe on a
\* key that has a record fails with AlreadyExists whatever its price and
\* dates, and leaves the store unchanged.
C8_SecondSubscribeAlreadyExists ==
    /\ []UniqueKeys
    /\ [][(Calls("Subscribe") /\ HasKey(subscriptions, KeyOf(call'.req)))
            => (call'.err = ErrAlreadyExists /\ subscriptions' = subscriptions)]_vars

\* C8, amended: there is at most one record per key; a subscribe on a key that
\* has a record leaves the store unchanged and fails, with AlreadyExists
\* whatever its price when its dates are in order, and with the date
\* validation's error when its end_date is before its start_date.
C8_IdentityUniqueness ==
    /\ []UniqueKeys
    /\ [][(Calls("Subscribe") /\ HasKey(subscriptions, KeyOf(call'.req)))
            => /\ subscriptions' = subscriptions
               /\ call'.err = IF DatesInOrder(call'.req) THEN ErrAlreadyExists
                              ELSE ErrInvalidDateRange]_vars

\* A subscribe that failed with AlreadyExists although its price and dates
\* differ from the stored record's.
C8_Witness ==
    /\ call.op = "Subscribe"
    /\ call.called
    /\ call.err = ErrAlreadyExists
    /\ \E r \in subscriptions :
         /\ PrimaryKey(r) = KeyOf(call.req)
         /\ r.price # call.req.price
         /\ r.start_date.ym # call.req.start_date.ym

\* C9: after a successful subscribe(r), get on r's key returns r's user_id,
\* service_name and price, the first day of r.start_date's month as
\* start_date, and no end_date iff r has none, otherwise the first day of
\* r.end_date's month.
C9_RoundTrip ==
    (call.op = "Subscribe" /\ call.called /\ call.err = OK) =>
      LET r == call.req
          g == SvcGetSubscription(subscriptions, r.user_id, r.service_name)
      IN  /\ g.err = OK
          /\ g.sub[1].UserId = r.user_id
          /\ g.sub[1].ServiceName = r.service_name
          /\ g.sub[1].Price = r.price
          /\ DateValue(g.sub[1].StartDate) = FirstDay(r.start_date.ym)
          /\ IsNull(g.sub[1].EndDate) <=> IsNull(r.end_date)
          /\ ~IsNull(r.end_date)
               => DateValue(g.sub[1].EndDate[1]) = FirstDay(r.end_date[1].ym)

\* A successful subscribe whose start_date is not a first day and whose
\* end_date lies in a later month.
C9_Witness ==
    /\ call.op = "Subscribe"
    /\ call.called
    /\ call.err = OK
    /\ call.req.start_date.d # 1
    /\ ~IsNull(call.req.end_date)
    /\ call.req.end_date[1].ym > call.req.start_date.ym

\* C10 as stated: updateSubscription and unsubscribe on a key that has no
\* record fail with NotFound and leave the store unchanged.
C10_AbsentKeyNotFound ==
    [][\A op \in {"UpdateSubscription", "Unsubscribe"} :
         (Calls(op) /\ ~HasKey(subscriptions, KeyOf(call'.req)))
           => (call'.err = ErrNotFound /\ subscriptions' = subscriptions)]_vars

\* C10, amended: unsubscribe on a key that has no record fails with NotFound;
\* updateSubscription on such a key fails with NotFound when its dates are in
\* order and with the date validation's error when its end_date is before
\* its start_date; both leave the store unchanged, so no record is created.
C10_AbsentKeyFails ==
    [][/\ (Calls("Unsubscribe") /\ ~HasKey(subscriptions, KeyOf(call'.req)))
            => (call'.err = ErrNotFound /\ subscriptions' = subscriptions)
       /\ (Calls("UpdateSubscription") /\ ~HasKey(subscriptions, KeyOf(call'.req)))
            => /\ subscriptions' = subscriptions
               /\ call'.err = IF DatesInOrder(call'.req) THEN ErrNotFound
                              ELSE ErrInvalidDateRange]_vars

\* An update that failed with NotFound while other keys have records.
C10_Witness ==
    /\ call.op = "UpdateSubscription"
    /\ call.called
    /\ call.err = ErrNotFound
    /\ subscriptions # {}
    /\ ~HasKey(subscriptions, KeyOf(call.req))

----------------------------------------------------------------------------
(* C11 .. C16: validation, stored dates, deletion, response statuses *)

\* C11: subscribe and updateSubscription reject with InvalidDateRange every
\* record whose end_date is present and before its start_date, whatever its
\* price and service name and whether or not its key has a record; the
\* rejected call sends no statement to the store and leaves it unchanged.
C11_EndBeforeStartRejected ==
    [][\A op \in {"Subscribe", "UpdateSubscription"} :
         (Calls(op) /\ ~DatesInOrder(call'.req))
           => /\ call'.err = ErrInvalidDateRange
              /\ call'.dbCalls = 0
              /\ subscriptions' = subscriptions]_vars

\* An update with end_date before start_date that was rejected although its
\* key has a record, with another price.
C11_Witness ==
    /\ call.op = "UpdateSubscription"
    /\ call.called
    /\ call.err = ErrInvalidDateRange
    /\ \E r \in subscriptions :
         PrimaryKey(r) = KeyOf(call.req) /\ r.price # call.req.price

\* Timestamps and requests whose clocks differ, and the service driven by
\* them.
ZoneOffsets == {-12, 0, 12}

ZonedTimes == {t \in [ym : SubYms, d : Days, off : ZoneOffsets] : t.d <= DaysIn(t.ym)}

ZonedRequests ==
    {r \in [user_id : Users, service_name : Services, price : {1},
            start_date : ZonedTimes, end_date : {None} \cup {Some(t) : t \in ZonedTimes}] :
       <<r.user_id, r.service_name>> \in Keys}

SubscribeZoned ==
    /\ call = Idle
    /\ \E req \in ZonedRequests : HandleSubscribe(req)
    /\ UNCHANGED proc

UpdateSubscriptionZoned ==
    /\ call = Idle
    /\ \E req \in ZonedRequests : HandleUpdateSubscription(req)
    /\ UNCHANGED proc

NextZoned ==
    \/ SubscribeZoned
    \/ UpdateSubscriptionZoned
    \/ Unsubscribe
    \/ GetSubscription
    \/ Respond

SpecZoned == Init /\ [][NextZoned]_vars

\* C12: in every reachable store state, whatever well-formed timestamps the
\* requests carried, start and end on different clocks included, every stored
\* record that has an end_date has it on or after its start_date.
C12_StoredEndNotBeforeStart ==
    \A r \in subscriptions : IsNull(r.end_date) \/ DateLE(r.start_date, r.end_date[1])

\* C13: every stored start_date and every stored end_date is the first day of
\* a month; subscribe and updateSubscription discard the day of the month
\* before they write, so a write is never refused for its day and a successful
\* one stores the first day of the request's months; normalizing a normalized
\* value, or writing back a stored record, changes nothing.
C13_StoredDatesAreFirstDays ==
    /\ \A r \in subscriptions :
         /\ r.start_date.d = 1
         /\ IsNull(r.end_date) \/ r.end_date[1].d = 1
         /\ RowOf(NormalizeDates(ScanRow(r))) = r
    /\ (call.op \in {"Subscribe", "UpdateSubscription"} /\ call.called) =>
         /\ call.err \in {OK, ErrAlreadyExists, ErrNotFound, ErrInvalidDateRange}
         /\ firstOfMonth(firstOfMonth(call.req.start_date)) = firstOfMonth(call.req.start_date)
         /\ call.err = OK =>
              \E r \in subscriptions :
                /\ PrimaryKey(r) = KeyOf(call.req)
                /\ r.start_date = FirstDay(call.req.start_date.ym)
                /\ ~IsNull(call.req.end_date)
                     => r.end_date = Some(FirstDay(call.req.end_date[1].ym))

\* A successful update whose start_date and end_date are both last days of
\* their months.
C13_Witness ==
    /\ call.op = "UpdateSubscription"
    /\ call.called
    /\ call.err = OK
    /\ call.req.start_date.d = 31
    /\ ~IsNull(call.req.end_date)
    /\ call.req.end_date[1].d = 31

\* C14: a successful unsubscribe removes the record of its key and no other
\* record; on the store it leaves, get and a second unsubscribe on that key
\* fail with NotFound and a subscribe on that key, with any price and any
\* dates in order, succeeds.
C14_UnsubscribeRemovesItsRecord ==
    [][(Calls("Unsubscribe") /\ call'.err = OK) =>
         LET k == KeyOf(call'.req)
         IN  /\ HasKey(subscriptions, k)
             /\ subscriptions' = {r \in subscriptions : PrimaryKey(r) # k}
             /\ SvcGetSubscription(subscriptions', k[1], k[2]).err = ErrNotFound
             /\ SvcUnsubscribe(subscriptions', k[1], k[2]).err = ErrNotFound
             /\ \A req \in SubscriptionRequests :
                  (KeyOf(req) = k /\ DatesInOrder(req)) =>
                    LET r == SvcSubscribe(subscriptions',
                                          ValidateSubscriptionRequest(req).sub[1])
                    IN  r.err = OK /\ HasKey(r.table, k)]_vars

\* A successful unsubscribe that left the records of two other keys, one of
\* them of the same user.
C14_Witness ==
    /\ call.op = "Unsubscribe"
    /\ call.called
    /\ call.err = OK
    /\ Cardinality(subscriptions) = 2
    /\ \E r \in subscriptions : r.user_id = call.req.user_id

\* C15: every validation failure is answered with status 400: the failures
\* the handlers find themselves, and InvalidDateRange on create and update and
\* InvalidRange on summary, which are never answered with 500.
C15_ValidationFailuresAre400 ==
    (call.op # "idle" /\ (~call.called \/ call.err \in {ErrInvalidDateRange, ErrInvalidRange}))
      => call.status = 400

\* The status of the response in flight follows from the service's result:
\* 201 (create) or 200 on success, 409 for AlreadyExists on create, 404 for
\* NotFound on get, update and delete, 500 for every other failure.
StatusFollowsResult ==
    (call.op # "idle" /\ call.called) =>
      call.status =
        IF call.err = OK THEN (IF call.op = "Subscribe" THEN 201 ELSE 200)
        ELSE IF call.op = "Subscribe" /\ call.err = ErrAlreadyExists THEN 409
        ELSE IF call.op \in {"GetSubscription", "UpdateSubscription", "Unsubscribe"}
                  /\ call.err = ErrNotFound THEN 404
        ELSE 500

----------------------------------------------------------------------------
(* Concurrent requests.  The HTTP server runs every request on a goroutine *)
(* of its own; here call is a function from the goroutines to the request  *)
(* each one serves.  A handler validates its request without touching the  *)
(* store (Begin), then its one statement runs against the table, as one    *)
(* step of the database, and the response is written (End).  A request     *)
(* remembers the table at its invocation (at); a summary also collects     *)
(* every table that existed until its statement ran (seen).                *)

Procs == {"p1", "p2", "p3"}

ConcKeys == {<<"u1", "s1">>, <<"u1", "s2">>}

ConcSubscriptionRequests ==
    {r \in [user_id : Users, service_name : Services, price : Prices,
            start_date : {[ym |-> 1, d |-> 1, off |-> 0]}, end_date : {None}] :
       <<r.user_id, r.service_name>> \in ConcKeys}

ConcKeyRequests == {[user_id |-> k[1], service_name |-> k[2]] : k \in ConcKeys}

ConcSummaryRequests ==
    {[from |-> Some([ym |-> 0, d |-> d, off |-> 0]), to |-> Some([ym |-> 1, d |-> 1, off |-> 0]),
      user_id |-> "", service_name |-> ""] : d \in {1, 31}}

\* A request whose statement has not run yet.
InFlight(op, req) == [op |-> op, req |-> req, stage |-> "sent", at |-> subscriptions]

\* A request that was answered, from the request in flight c.
Answered(c, err, status, out) ==
    [op |-> c.op, req |-> c.req, stage |-> "done", at |-> c.at,
     err |-> err, status |-> status, out |-> out]

\* The summaries in flight see the table a write leaves.
Observe(c, table) ==
    [q \in Procs |->
       IF c[q].op = "GetSubscriptionSummary" /\ c[q].stage = "sent"
       THEN [c[q] EXCEPT !.seen = @ \cup {table}] ELSE c[q]]

SubscribeBegin(p) ==
    /\ call[p] = Idle
    /\ \E req \in ConcSubscriptionRequests :
         LET v == ValidateSubscriptionRequest(req)
         IN  call' = [call EXCEPT ![p] =
               IF v.err # OK THEN Answered(InFlight("Subscribe", req), v.err, 400, None)
               ELSE IF EndBeforeStart(v.sub[1])
               THEN Answered(InFlight("Subscribe", req), ErrInvalidDateRange,
                             SubscribeStatus(ErrInvalidDateRange), None)
               ELSE InFlight("Subscribe", req)]
    /\ UNCHANGED subscriptions
    /\ UNCHANGED proc

SubscribeEnd(p) ==
    /\ call[p].op = "Subscribe"
    /\ call[p].stage = "sent"
    /\ LET r == InsertSubscription(subscriptions,
                                   ValidateSubscriptionRequest(call[p].req).sub[1])
       IN  /\ subscriptions' = r.table
           /\ call' = [Observe(call, r.table) EXCEPT ![p] =
                         Answered(call[p], r.err, SubscribeStatus(r.err), None)]
    /\ UNCHANGED proc

UpdateSubscriptionBegin(p) ==
    /\ call[p] = Idle
    /\ \E req \in ConcSubscriptionRequests :
         LET v == ValidateSubscriptionRequest(req)
         IN  call' = [call EXCEPT ![p] =
               IF v.err # OK
               THEN Answered(InFlight("UpdateSubscription", req), v.err, 400, None)
               ELSE IF EndBeforeStart(v.sub[1])
               THEN Answered(InFlight("UpdateSubscription", req), ErrInvalidDateRange,
                             UpdateStatus(ErrInvalidDateRange), None)
               ELSE InFlight("UpdateSubscription", req)]
    /\ UNCHANGED subscriptions
    /\ UNCHANGED proc

UpdateSubscriptionEnd(p) ==
    /\ call[p].op = "UpdateSubscription"
    /\ call[p].stage = "sent"
    /\ LET r == PgUpdateSubscription(subscriptions,
                                     ValidateSubscriptionRequest(call[p].req).sub[1])
       IN  /\ subscriptions' = r.table
           /\ call' = [Observe(call, r.table) EXCEPT ![p] =
                         Answered(call[p], r.err, UpdateStatus(r.err), None)]
    /\ UNCHANGED proc

UnsubscribeBegin(p) ==
    /\ call[p] = Idle
    /\ \E req \in ConcKeyRequests :
         call' = [call EXCEPT ![p] =
           IF ~ValidUUID(req.user_id)
           THEN Answered(InFlight("Unsubscribe", req), "invalid user_id parameter", 400, None)
           ELSE IF req.service_name = ""
           THEN Answered(InFlight("Unsubscribe", req), "service_name is required", 400, None)
           ELSE InFlight("Unsubscribe", req)]
    /\ UNCHANGED subscriptions
    /\ UNCHANGED proc

UnsubscribeEnd(p) ==
    /\ call[p].op = "Unsubscribe"
    /\ call[p].stage = "sent"
    /\ LET r == DeleteSubscription(subscriptions, call[p].req.user_id,
                                   call[p].req.service_name)
       IN  /\ subscriptions' = r.table
           /\ call' = [Observe(call, r.table) EXCEPT ![p] =
                         Answered(call[p], r.err, UnsubscribeStatus(r.err), None)]
    /\ UNCHANGED proc

GetSubscriptionSummaryBegin(p) ==
    /\ call[p] = Idle
    /\ \E req \in ConcSummaryRequests :
         LET c == InFlight("GetSubscriptionSummary", req)
         IN  call' = [call EXCEPT ![p] =
               IF IsNull(req.from) \/ IsNull(req.to)
               THEN Answered(c, "from and to parameters are required", 400, None)
               ELSE IF IsNull(ParseTime(req.from[1]))
               THEN Answered(c, "invalid from date format", 400, None)
               ELSE IF IsNull(ParseTime(req.to[1]))
               THEN Answered(c, "invalid to date format", 400, None)
               ELSE IF req.user_id # "" /\ ~ValidUUID(req.user_id)
               THEN Answered(c, "invalid user_id parameter", 400, None)
               ELSE IF After(ParseTime(req.from[1])[1], ParseTime(req.to[1])[1])
               THEN Answered(c, ErrInvalidRange, 500, 0)
               ELSE [op |-> c.op, req |-> req, stage |-> "sent", at |-> subscriptions,
                     seen |-> {subscriptions}]]
    /\ UNCHANGED subscriptions
    /\ UNCHANGED proc

GetSubscriptionSummaryEnd(p) ==
    /\ call[p].op = "GetSubscriptionSummary"
    /\ call[p].stage = "sent"
    /\ LET req == call[p].req
           r == GetSubscriptionsSummary(subscriptions, ParseTime(req.from[1])[1],
                  ParseTime(req.to[1])[1],
                  IF req.user_id = "" THEN None ELSE Some(req.user_id),
                  IF req.service_name = "" THEN None ELSE Some(req.service_name))
       IN  call' = [call EXCEPT ![p] =
                      [op |-> call[p].op, req |-> req, stage |-> "done", at |-> call[p].at,
                       seen |-> call[p].seen, err |-> r.err,
                       status |-> IF r.err = OK THEN 200 ELSE 500, out |-> r.total]]
    /\ UNCHANGED subscriptions
    /\ UNCHANGED proc

InitConc ==
    /\ subscriptions = {}
    /\ call = [p \in Procs |-> Idle]
    /\ proc = ServerUp

NextConc ==
    \E p \in Procs :
      \/ SubscribeBegin(p)
      \/ SubscribeEnd(p)
      \/ UpdateSubscriptionBegin(p)
      \/ UpdateSubscriptionEnd(p)
      \/ UnsubscribeBegin(p)
      \/ UnsubscribeEnd(p)
      \/ GetSubscriptionSummaryBegin(p)
      \/ GetSubscriptionSummaryEnd(p)

SpecConc == InitConc /\ [][NextConc]_vars

----------------------------------------------------------------------------
(* C17 .. C19: concurrent requests *)

\* The goroutines serving op on key k.
Serving(op, k) == {p \in Procs : call[p].op = op /\ KeyOf(call[p].req) = k}

\* C17: when the subscribes on one key have all been answered and no
\* unsubscribe on that key was sent, exactly one of them succeeded and every
\* other one failed with AlreadyExists, however their statements interleaved;
\* without an update on that key the stored record is the winner's.  With
\* one subscribe per key, every subscribe succeeds.
C17_OneSubscribeWins ==
    \A k \in ConcKeys :
      LET S == Serving("Subscribe", k)
      IN  (S # {} /\ Serving("Unsubscribe", k) = {} /\ \A p \in S : call[p].stage = "done")
            => \E w \in S :
                 /\ call[w].err = OK
                 /\ \A p \in S \ {w} : call[p].err = ErrAlreadyExists
                 /\ Serving("UpdateSubscription", k) = {}
                      => {r \in subscriptions : PrimaryKey(r) = k}
                           = {RowOf(NormalizeDates(
                                ValidateSubscriptionRequest(call[w].req).sub[1]))}

\* Three subscribes on one key, all sent while the key had no record; the
\* second goroutine's won, against another price.
C17_Witness ==
    \E k \in ConcKeys :
      /\ \A p \in Procs :
           /\ call[p].op = "Subscribe"
           /\ KeyOf(call[p].req) = k
           /\ call[p].stage = "done"
           /\ ~HasKey(call[p].at, k)
      /\ call["p2"].err = OK
      /\ call["p1"].req.price # call["p2"].req.price

\* C19: a summary that ran while other requests wrote returns the reference
\* total of one table that existed between its invocation and its return.
C19_SummaryOfOneStoreState ==
    \A p \in Procs :
      (call[p].op = "GetSubscriptionSummary" /\ call[p].stage = "done" /\ call[p].err = OK)
        => \E table \in call[p].seen :
             call[p].out = RefTotal(table, call[p].req.from[1], call[p].req.to[1],
                                    None, None)

----------------------------------------------------------------------------
(* Requests whose context ends first.  Every handler runs the service      *)
(* under a context with a 3-second deadline, derived from the request's    *)
(* context, and the repository passes it to Exec.  When the context ends   *)
(* before the statement is sent, the statement never runs; when it ends    *)
(* while the statement is in flight, Exec returns the context's error      *)
(* whether or not the database has already run and committed the           *)
(* statement: no transaction surrounds it and nothing undoes it.           *)

ErrDeadlineExceeded == "context deadline exceeded"

ErrCanceled == "context canceled"

ContextErrors == {ErrDeadlineExceeded, ErrCanceled}

\* The tables Exec may leave when it returns the context's error, from the
\* table before and the table the statement produces.
ExecCanceled(table, after) == {table, after}

SubscribeCanceled ==
    /\ call = Idle
    /\ \E req \in SubscriptionRequests, err \in ContextErrors :
         LET sub == ValidateSubscriptionRequest(req).sub[1]
         IN  /\ ~EndBeforeStart(sub)
             /\ subscriptions' \in ExecCanceled(subscriptions,
                                     InsertSubscription(subscriptions, sub).table)
             /\ call' = Served("Subscribe", req, [err |-> err, dbCalls |-> 1],
                               SubscribeStatus(err), None)
    /\ UNCHANGED proc

UpdateSubscriptionCanceled ==
    /\ call = Idle
    /\ \E req \in SubscriptionRequests, err \in ContextErrors :
         LET sub == ValidateSubscriptionRequest(req).sub[1]
         IN  /\ ~EndBeforeStart(sub)
             /\ subscriptions' \in ExecCanceled(subscriptions,
                                     PgUpdateSubscription(subscriptions, sub).table)
             /\ call' = Served("UpdateSubscription", req, [err |-> err, dbCalls |-> 1],
                               UpdateStatus(err), None)
    /\ UNCHANGED proc

UnsubscribeCanceled ==
    /\ call = Idle
    /\ \E k \in Keys, err \in ContextErrors :
         /\ subscriptions' \in ExecCanceled(subscriptions,
                                 DeleteSubscription(subscriptions, k[1], k[2]).table)
         /\ call' = Served("Unsubscribe", [user_id |-> k[1], service_name |-> k[2]],
                           [err |-> err, dbCalls |-> 1], UnsubscribeStatus(err), None)
    /\ UNCHANGED proc

NextCancel ==
    \/ Subscribe
    \/ SubscribeCanceled
    \/ UpdateSubscriptionCanceled
    \/ UnsubscribeCanceled
    \/ Respond

SpecCancel == Init /\ [][NextCancel]_vars

\* C18: when subscribe, updateSubscription or unsubscribe ends with the
\* error of its context, expired or canceled, the store is as it was before
\* the request.
C18_CanceledLeavesStoreUnchanged ==
    [][(/\ call = Idle
        /\ call'.op \in {"Subscribe", "UpdateSubscription", "Unsubscribe"}
        /\ call'.err \in ContextErrors)
          => subscriptions' = subscriptions]_vars

----------------------------------------------------------------------------
(* C20: the effect of an update *)

\* C20: a successful updateSubscription(r) replaces the price, start_date and
\* end_date of the record of r's key, an absent end_date making it
\* open-ended, and leaves the set of keys and every other record as they
\* were; get on r's key right after returns r's price and the first days of
\* the months of r's dates.
C20_UpdateReplacesItsRecord ==
    [][(Calls("UpdateSubscription") /\ call'.err = OK) =>
         LET req == call'.req
             k == KeyOf(req)
             g == SvcGetSubscription(subscriptions', k[1], k[2])
         IN  /\ HasKey(subscriptions, k)
             /\ {PrimaryKey(r) : r \in subscriptions'} = {PrimaryKey(r) : r \in subscriptions}
             /\ {r \in subscriptions' : PrimaryKey(r) # k}
                  = {r \in subscriptions : PrimaryKey(r) # k}
             /\ Cardinality({r \in subscriptions' : PrimaryKey(r) = k}) = 1
             /\ g.err = OK
             /\ g.sub[1].UserId = req.user_id
             /\ g.sub[1].ServiceName = req.service_name
             /\ g.sub[1].Price = req.price
             /\ g.sub[1].StartDate = ScanDate(FirstDay(req.start_date.ym))
             /\ g.sub[1].EndDate = IF IsNull(req.end_date) THEN None
                                   ELSE Some(ScanDate(FirstDay(req.end_date[1].ym)))]_vars

\* A successful update without end_date, to a price and a start month that
\* no stored record had before, while three keys have records.
C20_Witness ==
    /\ call.op = "UpdateSubscription"
    /\ call.called
    /\ call.err = OK
    /\ IsNull(call.req.end_date)
    /\ call.req.start_date.d = 31
    /\ Cardinality(subscriptions) = 3
    /\ \A r \in subscriptions :
         PrimaryKey(r) # KeyOf(call.req)
           => (r.price # call.req.price /\ r.start_date.ym # call.req.start_date.ym)

----------------------------------------------------------------------------
(* C21 .. C25: list, failures of the store, validation order, prices,      *)
(* ranges                                                                  *)

\* C21: listSubscriptions(user_id) succeeds and returns one record for each
\* stored record of that user, whatever its service name, and nothing else:
\* no record of another user, as many records as the user has stored rows,
\* none when the user has no row; get, list and getSummary leave the store
\* as it was.
C21_ListIsTheUsersRecords ==
    /\ [](call.op = "GetSubscriptions" /\ call.called =>
            LET mine == {r \in subscriptions : r.user_id = call.req.userId}
            IN  /\ call.err = OK
                /\ call.status = 200
                /\ \A sub \in call.out : sub.UserId = call.req.userId
                /\ \A r \in mine :
                     \E sub \in call.out :
                       /\ sub.ServiceName = r.service_name
                       /\ sub.Price = r.price
                       /\ DateValue(sub.StartDate) = r.start_date
                       /\ IsNull(sub.EndDate) = IsNull(r.end_date)
                /\ Cardinality(call.out) = Cardinality(mine)
                /\ mine = {} => call.out = {})
    /\ [][(call = Idle /\ call'.op \in {"GetSubscription", "GetSubscriptions",
                                        "GetSubscriptionSummary"})
            => subscriptions' = subscriptions]_vars

\* A list that returned the two records of one user while another user has a
\* record.
C21_Witness ==
    /\ call.op = "GetSubscriptions"
    /\ call.called
    /\ Cardinality(call.out) = 2
    /\ Cardinality(subscriptions) = 3

\* Reads that the store fails: the connection is lost or the context ends,
\* and Query / QueryRow(...).Scan return that error.  The repository passes
\* on every error but pgx.ErrNoRows as it is, the service passes on the
\* repository's error, the handler answers with its text.
ErrUnavailable == "connection refused"

StoreErrors == ContextErrors \cup {ErrUnavailable}

\* Mutant of GetSubscriptionsStatus: the error is not looked at.
GetSubscriptionsStatusIgnored(err) == 200

GetSubscriptionsStatus(err) == IF err = OK THEN 200 ELSE 500

GetSubscriptionSummaryStatus(err) == IF err = OK THEN 200 ELSE 500

GetSubscriptionFailed ==
    /\ call = Idle
    /\ \E k \in Keys, err \in StoreErrors :
         call' = Served("GetSubscription", [user_id |-> k[1], service_name |-> k[2]],
                        [err |-> err, dbCalls |-> 1], GetSubscriptionStatus(err), None)
    /\ UNCHANGED subscriptions
    /\ UNCHANGED proc

GetSubscriptionsFailed ==
    /\ call = Idle
    /\ \E u \in Users, err \in StoreErrors :
         call' = Served("GetSubscriptions", [userId |-> u], [err |-> err, dbCalls |-> 1],
                        GetSubscriptionsStatus(err), None)
    /\ UNCHANGED subscriptions
    /\ UNCHANGED proc

GetSubscriptionSummaryFailed ==
    /\ call = Idle
    /\ \E req \in ConcSummaryRequests, err \in StoreErrors :
         call' = Served("GetSubscriptionSummary", req, [err |-> err, dbCalls |-> 1],
                        GetSubscriptionSummaryStatus(err), 0)
    /\ UNCHANGED subscriptions
    /\ UNCHANGED proc

NextFail ==
    \/ Next
    \/ SubscribeCanceled
    \/ UpdateSubscriptionCanceled
    \/ UnsubscribeCanceled
    \/ GetSubscriptionFailed
    \/ GetSubscriptionsFailed
    \/ GetSubscriptionSummaryFailed

SpecFail == Init /\ [][NextFail]_vars

\* C22: a service operation sends at most one statement to the store; when
\* the store fails it, by a lost connection, an ended context, a constraint
\* or a missing row, the operation fails with that error, the response has a
\* failure status, and a response with a success status comes only from an
\* operation without error.
C22_SingleShotPropagation ==
    (call.op # "idle" /\ call.called) =>
      /\ call.dbCalls <= 1
      /\ call.err \in StoreErrors => (call.dbCalls = 1 /\ call.status = 500)
      /\ call.err # OK => call.status >= 400
      /\ call.status \in {200, 201} => call.err = OK

\* A list that the store failed while the user has records.
C22_Witness ==
    /\ call.op = "GetSubscriptions"
    /\ call.called
    /\ call.err = ErrUnavailable
    /\ \E r \in subscriptions : r.user_id = call.req.userId

\* C23: the dates are validated before the store is asked: subscribe on a key
\* that has a record and updateSubscription on a key that has none, with
\* end_date before start_date, fail with InvalidDateRange, not AlreadyExists
\* or NotFound; a record whose end_date is absent or the same instant as its
\* start_date passes the date validation and reaches the store.
C23_DatesBeforeExistence ==
    [][/\ (Calls("Subscribe") /\ HasKey(subscriptions, KeyOf(call'.req))
             /\ ~DatesInOrder(call'.req))
            => call'.err = ErrInvalidDateRange
       /\ (Calls("UpdateSubscription") /\ ~HasKey(subscriptions, KeyOf(call'.req))
             /\ ~DatesInOrder(call'.req))
            => call'.err = ErrInvalidDateRange
       /\ \A op \in {"Subscribe", "UpdateSubscription"} :
            (/\ Calls(op)
             /\ \/ IsNull(call'.req.end_date)
                \/ Unix(call'.req.end_date[1]) = Unix(call'.req.start_date))
              => (call'.err # ErrInvalidDateRange /\ call'.dbCalls = 1)]_vars

\* A subscribe with end_date before start_date, on another clock, that was
\* rejected for its dates although its key has a record.
C23_Witness ==
    /\ call.op = "Subscribe"
    /\ call.called
    /\ call.err = ErrInvalidDateRange
    /\ call.req.end_date[1].off # call.req.start_date.off
    /\ HasKey(subscriptions, KeyOf(call.req))

\* Create requests over prices the boundary's int64 field can carry: below
\* zero, zero, the largest amount of the INTEGER column that is a whole
\* number of units (2^31 - 2^16) and the next one (2^31).
PricedRequests ==
    {r \in [user_id : Users, service_name : Services,
            price : {-1, 0, 1, MaxInt4 \div PriceUnit, MaxInt4 \div PriceUnit + 1},
            start_date : {[ym |-> 1, d |-> 1, off |-> 0]}, end_date : {None}] :
       <<r.user_id, r.service_name>> \in Keys}

SubscribePriced ==
    /\ call = Idle
    /\ \E req \in PricedRequests : HandleSubscribe(req)
    /\ UNCHANGED proc

NextPriced ==
    \/ SubscribePriced
    \/ Unsubscribe
    \/ GetSubscription
    \/ Respond

SpecPriced == Init /\ [][NextPriced]_vars

\* C24: a create request with a negative price is answered with 400 without
\* a call of the service; one with a price of 0 or more that fits a 64-bit
\* integer, valid dates and a key without record is stored, and get returns
\* its price; every stored price is at least 0 and so is the total over the
\* whole store.
C24_ValidPricesAreStored ==
    /\ []((call.op = "Subscribe" /\ call.req.price < 0)
            => (~call.called /\ call.status = 400))
    /\ [](\A r \in subscriptions : r.price >= 0)
    /\ [](SumPrice({<<r, 1>> : r \in subscriptions}) >= 0)
    /\ [][(/\ Calls("Subscribe")
           /\ call'.req.price >= 0
           /\ ~HasKey(subscriptions, KeyOf(call'.req)))
            => /\ call'.err = OK
               /\ LET g == SvcGetSubscription(subscriptions', call'.req.user_id,
                                              call'.req.service_name)
                  IN  g.err = OK /\ g.sub[1].Price = call'.req.price]_vars

\* C25: the total never decreases when the range is widened: on the same
\* store and with the same filters, a summary over [from', to'] returns at
\* least the total of every range from <= to that lies within it.
C25_WiderRangeNotSmaller ==
    SummaryOK =>
      \A from, to \in Times :
        (Unix(qFrom) <= Unix(from) /\ Unix(from) <= Unix(to) /\ Unix(to) <= Unix(qTo))
          => call.out >= GetSubscriptionsSummary(subscriptions, from, to,
                                                 qUser, qService).total

----------------------------------------------------------------------------
(* C26: update against unsubscribe *)

\* C26: when an update and an unsubscribe on one key were both sent while the
\* key had a record and both have been answered, the unsubscribe succeeded,
\* the update either succeeded (it ran first) or failed with NotFound (it ran
\* second), and the key has no record: the update did not bring it back.
\* The record was created by the third goroutine before either was sent.
C26_UpdateNeverResurrects ==
    \A k \in ConcKeys :
      \A p \in Serving("UpdateSubscription", k), q \in Serving("Unsubscribe", k) :
        (/\ call[p].stage = "done"
         /\ call[q].stage = "done"
         /\ HasKey(call[p].at, k)
         /\ HasKey(call[q].at, k))
          => /\ call[q].err = OK
             /\ call[p].err \in {OK, ErrNotFound}
             /\ ~HasKey(subscriptions, k)

\* The unsubscribe ran first: the update, sent while the record existed,
\* failed with NotFound.
C26_Witness ==
    \E k \in ConcKeys :
      \E p \in Serving("UpdateSubscription", k), q \in Serving("Unsubscribe", k) :
        /\ call[p].stage = "done"
        /\ call[q].stage = "done"
        /\ HasKey(call[p].at, k)
        /\ HasKey(call[q].at, k)
        /\ call[p].err = ErrNotFound

----------------------------------------------------------------------------
(* main: start-up and shutdown.  Each action is one step of main, of the   *)
(* goroutine waiting on sig, or of the goroutine running router.Run; the   *)
(* scheduler may run them in any order.  l.Fatal logs and calls os.Exit,   *)
(* which ends the process at once, without the deferred calls.             *)

ActiveCounts == 0..3

Alive == proc.exit = "running"

Rest == UNCHANGED <<subscriptions, call>>

\* SIGINT or SIGTERM is delivered to the channel sig.
Signal ==
    /\ Alive
    /\ proc.signal = "none"
    /\ proc' = [proc EXCEPT !.signal = "queued",
                            !.whileServing = proc.run = "serving" /\ proc.srv = "listening"]
    /\ Rest

\* The goroutine of lines 67-71: <-sig, then cancel().
AwaitSignal ==
    /\ Alive
    /\ proc.signal = "queued"
    /\ proc' = [proc EXCEPT !.signal = "taken", !.ctx = "canceled"]
    /\ Rest

\* pgxpool.Connect(ctx, ...): fails when the context is canceled or the
\* database cannot be reached, and then l.Fatal ends the process.
MainConnect ==
    /\ Alive
    /\ proc.main = "connect"
    /\ \E reached \in BOOLEAN :
         proc' = IF proc.ctx = "canceled" \/ ~reached
                 THEN [proc EXCEPT !.exit = "fatal_connect"]
                 ELSE [proc EXCEPT !.main = "go_run"]
    /\ Rest

\* go func() { err := router.Run(...) ... }()
MainGoRun ==
    /\ Alive
    /\ proc.main = "go_run"
    /\ proc' = [proc EXCEPT !.main = "wait", !.run = "assign"]
    /\ Rest

\* Router.Run: router.s = srv.
RunAssign ==
    /\ Alive
    /\ proc.run = "assign"
    /\ proc' = [proc EXCEPT !.s = "srv", !.run = "listen"]
    /\ Rest

\* Router.Run: router.s.ListenAndServe() is entered.  After Shutdown it
\* returns ErrServerClosed at once; otherwise it listens, or fails to.
RunListen ==
    /\ Alive
    /\ proc.run = "listen"
    /\ \E bound \in BOOLEAN :
         proc' = IF proc.srv = "shutdown"
                 THEN [proc EXCEPT !.run = "check", !.runErr = ErrServerClosed]
                 ELSE IF bound THEN [proc EXCEPT !.run = "serving", !.srv = "listening"]
                 ELSE [proc EXCEPT !.run = "check", !.runErr = ErrListen]
    /\ Rest

\* ListenAndServe returns ErrServerClosed as soon as Shutdown was called.
RunReturn ==
    /\ Alive
    /\ proc.run = "serving"
    /\ proc.srv = "shutdown"
    /\ proc' = [proc EXCEPT !.run = "check", !.runErr = ErrServerClosed]
    /\ Rest

\* if err != nil { l.Fatal(...) }: ListenAndServe never returns nil.
RunFatal ==
    /\ Alive
    /\ proc.run = "check"
    /\ proc.runErr # OK
    /\ proc' = [proc EXCEPT !.exit = "fatal_server"]
    /\ Rest

\* The server accepts a request, and a request ends.
Accept ==
    /\ Alive
    /\ proc.run = "serving"
    /\ proc.srv = "listening"
    /\ proc.active + 1 \in ActiveCounts
    /\ proc' = [proc EXCEPT !.active = @ + 1]
    /\ Rest

Finish ==
    /\ Alive
    /\ proc.active > 0
    /\ proc' = [proc EXCEPT !.active = @ - 1]
    /\ Rest

\* <-ctx.Done()
MainAwaitDone ==
    /\ Alive
    /\ proc.main = "wait"
    /\ proc.ctx = "canceled"
    /\ proc' = [proc EXCEPT !.main = "stop"]
    /\ Rest

\* router.Stop(ctxSvr): router.s is read, with nothing that orders the read
\* after the assignment in Run; Shutdown on the nil server is a nil pointer
\* dereference, whose panic unwinds main through its deferred calls.
\* Otherwise Shutdown closes the listener and waits for the requests.
MainStop ==
    /\ Alive
    /\ proc.main = "stop"
    /\ proc' = IF proc.s = "nil"
               THEN [proc EXCEPT !.stopCalls = @ + 1, !.stopRead = "nil",
                                 !.cleanups = TRUE, !.exit = "panic"]
               ELSE [proc EXCEPT !.stopCalls = @ + 1, !.stopRead = "srv",
                                 !.srv = "shutdown", !.main = "stopping"]
    /\ Rest

\* Shutdown returns: no request is left, or the 5-second deadline passed.
MainStopReturn ==
    /\ Alive
    /\ proc.main = "stopping"
    /\ \E deadline \in BOOLEAN : deadline \/ proc.active = 0
    /\ proc' = [proc EXCEPT !.main = "sleep"]
    /\ Rest

\* time.Sleep(7 * time.Second), then main returns and its deferred calls run.
MainReturn ==
    /\ Alive
    /\ proc.main = "sleep"
    /\ proc' = [proc EXCEPT !.main = "returned", !.cleanups = TRUE, !.exit = "returned"]
    /\ Rest

InitMain ==
    /\ subscriptions = {}
    /\ call = Idle
    /\ proc = MainEntered

NextMain ==
    \/ Signal
    \/ AwaitSignal
    \/ MainConnect
    \/ MainGoRun
    \/ RunAssign
    \/ RunListen
    \/ RunReturn
    \/ RunFatal
    \/ Accept
    \/ Finish
    \/ MainAwaitDone
    \/ MainStop
    \/ MainStopReturn
    \/ MainReturn

SpecMain == InitMain /\ [][NextMain]_vars

----------------------------------------------------------------------------
(* C27, C28: shutdown *)

\* C27: router.Stop is called at most once; when the signal came while the
\* server was serving, the process ends only by main returning, after one
\* call of router.Stop and with the deferred cleanups run; the router
\* goroutine never ends the process through l.Fatal because of the shutdown.
C27_GracefulShutdownCompletes ==
    /\ proc.stopCalls <= 1
    /\ (proc.whileServing /\ proc.exit # "running")
         => (proc.exit = "returned" /\ proc.cleanups /\ proc.stopCalls = 1)
    /\ (proc.whileServing /\ proc.exit = "fatal_server") => proc.runErr # ErrServerClosed

\* C28: in every interleaving router.Stop runs after router.Run has assigned
\* router.s: Stop never reads a nil server and never panics on it.
C28_StopAfterRunAssigned ==
    /\ proc.stopCalls > 0 => proc.stopRead = "srv"
    /\ proc.exit # "panic"

====
